---- MODULE Spec2Model ----
(***************************************************************************)
(* prolif/utils.py, update_bonds_and_charges(mol): the single pass that    *)
(* infers bond orders and formal charges from the valence of every atom.   *)
(*                                                                         *)
(* The molecule is the RDKit object the routine mutates in place.  Its     *)
(* total valence is the cached quantity GetTotalValence reads: the sum of  *)
(* the orders of the atom's bonds plus its fixed hydrogen count, as of the *)
(* last UpdatePropertyCache.  Bond orders are SINGLE = 1, DOUBLE = 2,      *)
(* TRIPLE = 3 (AROMATIC bonds, whose valence contribution is fractional,   *)
(* are not modelled).  Formal charges start at 0: the readers the routine  *)
(* serves keep neither bond orders nor charges.                            *)
(***************************************************************************)
EXTENDS Integers, Sequences, FiniteSets

\* Number of atoms of the molecules explored.
MaxAtoms == 3

Atoms == 1..MaxAtoms

SINGLE == 1
DOUBLE == 2
TRIPLE == 3

\* The atoms explored: an element and the hydrogens it carries.
Kinds ==
    { [sym |-> "O", hs |-> 0], [sym |-> "O", hs |-> 1],
      [sym |-> "C", hs |-> 0], [sym |-> "C", hs |-> 1],
      [sym |-> "S", hs |-> 0], [sym |-> "S", hs |-> 2] }

VARIABLES
    kind,       \* atom -> its element and hydrogen count (fixed)
    nbrs,       \* atom -> its neighbours, in GetNeighbors order (fixed)
    btype,      \* bond {a, b} -> its order
    charge,     \* atom -> its formal charge
    vcache,     \* atom -> cached total valence (what GetTotalValence returns)
    dirty,      \* a bond order or charge was written since the last recompute
    pc,         \* position in the routine
    cur,        \* the atom of the outer loop
    idx,        \* i, the 1-based position in the neighbour loop
    electrons,  \* the visited atom's deficit list (line 46)
    pass,       \* 1 in the first run of the routine, 2 in a second run
    \* ---- history, written but never read by the routine ----
    bt0,        \* the bond orders the pass started from
    ch0,        \* the charges the pass started from
    vsnaps,     \* the cached valences at the start of each visit, in order
    wkind,      \* how the current visit ended its scan: "none", "charge",
                \* "bond", or "noop" (lines 74-80 without a SetBondType call)
    widx,       \* the neighbour position at which it did (0: none)
    vwrites,    \* the SetFormalCharge / SetBondType calls of the current visit
    visited,    \* the atoms visited so far, in order
    sanSnap,    \* the bond orders and charges SanitizeMol was called on
    acted,      \* <<atom, neighbour, common_electrons>> of every pass through
                \* lines 74-80
    chargeSet,  \* atoms SetFormalCharge was called on, in this pass
    nonzeroSet, \* atoms SetFormalCharge gave a charge other than 0
    changes,    \* bond -> number of times its order changed in this pass
    lastSet,    \* the last SetBondType call: <<bond, order before, order after>>
    staleRead,  \* a GetTotalValence call read a dirty cache
    strictLoop, \* an in-loop recompute was strict
    sanitized   \* number of SanitizeMol calls in this pass

vars == <<kind, nbrs, btype, charge, vcache, dirty, pc, cur, idx, electrons,
          pass, bt0, ch0, vsnaps, wkind, widx, vwrites, visited, sanSnap,
          acted, chargeSet, nonzeroSet, changes, lastSet, staleRead,
          strictLoop, sanitized>>

----------------------------------------------------------------------------
\* The molecular graph

Pairs == { {a, b} : a, b \in Atoms } \ { {a} : a \in Atoms }

\* The molecules explored have fewer bonds than atoms.
Graphs == { B \in SUBSET Pairs : Cardinality(B) < MaxAtoms }

\* The orders in which the bonds of B can have been added to the molecule.
RECURSIVE BondSeqs(_)
BondSeqs(B) ==
    IF B = {} THEN { <<>> }
    ELSE UNION { { <<b>> \o s : s \in BondSeqs(B \ {b}) } : b \in B }

Other(b, a) == CHOOSE x \in b : x # a

\* GetNeighbors: the other ends of the atom's bonds, in the order the bonds
\* were added to the molecule.
RECURSIVE NeighborsIn(_, _)
NeighborsIn(a, bs) ==
    IF bs = <<>> THEN <<>>
    ELSE (IF a \in Head(bs) THEN <<Other(Head(bs), a)>> ELSE <<>>)
         \o NeighborsIn(a, Tail(bs))

Bonds == DOMAIN btype

\* GetBondBetweenAtoms(atom.GetIdx(), na.GetIdx())
GetBondBetweenAtoms(a, na) == {a, na}

----------------------------------------------------------------------------
\* The collaborators' data

\* PERIODIC_TABLE.GetValenceList(atomic number)
GetValenceList(sym) ==
    CASE sym = "O" -> <<2>>
      [] sym = "C" -> <<4>>
      [] sym = "S" -> <<2, 4, 6>>

RECURSIVE SumOrders(_, _, _)
SumOrders(a, ns, bt) ==
    IF ns = <<>> THEN 0
    ELSE bt[{a, Head(ns)}] + SumOrders(a, Tail(ns), bt)

\* The total valence of atom a under bond orders bt: its bonds and hydrogens.
TotalValence(a, bt) == kind[a].hs + SumOrders(a, nbrs[a], bt)

\* What UpdatePropertyCache stores for GetTotalValence to return.
PropertyCache(bt) == [a \in Atoms |-> TotalValence(a, bt)]

\* SanitizeMol's verdict: every atom's valence, its formal charge taken off,
\* is one of its element's valid valences.
Sanitizes(bt, ch) ==
    \A a \in Atoms :
        \E k \in 1..Len(GetValenceList(kind[a].sym)) :
            GetValenceList(kind[a].sym)[k] = TotalValence(a, bt) - ch[a]

----------------------------------------------------------------------------
\* The routine's own computations

SetOf(s) == { s[k] : k \in 1..Len(s) }

Min(S) == CHOOSE x \in S : \A y \in S : x <= y

\* electrons = [ v - vtot for v in valences ]
Deficits(valences, vtot) == [k \in 1..Len(valences) |-> valences[k] - vtot]

\* the deficit list the routine computes for atom a from cached valences v
ElectronsOf(a, v) == Deficits(GetValenceList(kind[a].sym), v[a])

\* set_electrons.intersection(na_electrons)
Shared(set_electrons, na_electrons) == set_electrons \cap SetOf(na_electrons)

\* min(..., default=np.nan) of a non-empty intersection
CommonElectrons(shared) == Min(shared)

\* if (len(electrons)==1) and (electrons[0]<0)
OnlyPositiveCharge(el) == Len(el) = 1 /\ el[1] < 0

\* the deficit itself, not its negation
ChargeFor_Unsigned(el) == el[1]

\* charge = -electrons[0], both in the positive and in the fallback branch
ChargeFor(el) == -el[1]

\* if i == len(neighbors)
IsLastOption(i, n) == i = n

\* the two orders exchanged
BondTypeFor_Swapped(common) ==
    IF common = 1 THEN TRIPLE ELSE DOUBLE

\* the order SetBondType is called with, if it is called
BondTypeFor(common) ==
    IF common = 1 THEN DOUBLE ELSE TRIPLE

\* the elif written as an else: any other shared deficit sets a TRIPLE bond
SetsBond_Always(common) == TRUE

\* whether SetBondType is called at all for this shared deficit
SetsBond(common) == common = 1 \/ common = 2

\* the flag the in-loop UpdatePropertyCache is called with
LoopStrict == FALSE

\* line 79 left out: the loop breaks with the cache as it was
AfterBondBranch_NoRecompute == "endvisit"

\* line 79: after lines 74-78 the cache is recomputed
AfterBondBranch == "recompute"

\* line 80 left out: the neighbour loop goes on after lines 74-79
BreaksOut_Missing == FALSE

\* line 80: the neighbour loop is left after lines 74-79
BreaksOut == TRUE

----------------------------------------------------------------------------
\* The state a pass starts from

StartOfPass ==
    /\ pc = "atom"
    /\ cur = 1
    /\ idx = 0
    /\ electrons = <<>>
    /\ vsnaps = <<>>
    /\ wkind = "none"
    /\ widx = 0
    /\ vwrites = <<>>
    /\ visited = <<>>
    /\ sanSnap = <<>>
    /\ acted = {}
    /\ chargeSet = {}
    /\ nonzeroSet = {}
    /\ changes = [b \in Bonds |-> 0]
    /\ lastSet = <<>>
    /\ staleRead = FALSE
    /\ strictLoop = FALSE
    /\ sanitized = 0

InitWith(orders) ==
    /\ kind \in [Atoms -> Kinds]
    /\ \E B \in Graphs : \E bs \in BondSeqs(B) :
          /\ nbrs = [a \in Atoms |-> NeighborsIn(a, bs)]
          /\ btype \in [B -> orders]
    /\ charge = [a \in Atoms |-> 0]
    /\ vcache = PropertyCache(btype)
    /\ dirty = FALSE
    /\ pass = 1
    /\ bt0 = btype
    /\ ch0 = charge
    /\ StartOfPass

\* A topology without bond orders: every bond is SINGLE.
Init == InitWith({SINGLE})

\* A molecule whose bonds already carry orders.
InitAnyOrder == InitWith({SINGLE, DOUBLE, TRIPLE})

----------------------------------------------------------------------------
\* The steps of the routine

\* atom.SetFormalCharge(charge), with its bookkeeping
SetFormalCharge(a, c) ==
    /\ charge' = [charge EXCEPT ![a] = c]
    /\ chargeSet' = chargeSet \cup {a}
    /\ nonzeroSet' = IF c # 0 THEN nonzeroSet \cup {a} ELSE nonzeroSet
    /\ dirty' = TRUE
    /\ vwrites' = Append(IF pc = "atom" THEN <<>> ELSE vwrites, "charge")

\* bond.SetBondType(t), with its bookkeeping
SetBondType(b, t) ==
    /\ btype' = [btype EXCEPT ![b] = t]
    /\ changes' = [changes EXCEPT ![b] = IF btype[b] # t THEN @ + 1 ELSE @]
    /\ lastSet' = <<b, btype[b], t>>
    /\ dirty' = TRUE
    /\ vwrites' = Append(vwrites, "bond")

\* Lines 43-57: the loop takes the next atom, reads its valence and either
\* sets the positive charge (lines 52-54) or starts the neighbour loop.
VisitAtom ==
    /\ pc = "atom"
    /\ LET el == ElectronsOf(cur, vcache) IN
        /\ electrons' = el
        /\ visited' = Append(visited, cur)
        /\ vsnaps' = Append(vsnaps, vcache)
        /\ staleRead' = (staleRead \/ dirty)
        /\ IF OnlyPositiveCharge(el)
           THEN /\ SetFormalCharge(cur, ChargeFor(el))
                /\ wkind' = "charge"
                /\ idx' = 0
                /\ pc' = "recompute"
           ELSE /\ wkind' = "none"
                /\ idx' = 1
                /\ pc' = IF nbrs[cur] = <<>> THEN "endvisit" ELSE "scan"
                /\ vwrites' = <<>>
                /\ UNCHANGED <<charge, chargeSet, nonzeroSet, dirty>>
    /\ widx' = 0
    /\ UNCHANGED <<kind, nbrs, btype, vcache, cur, pass, bt0, ch0, acted,
                   changes, lastSet, strictLoop, sanitized, sanSnap>>

\* where the neighbour loop goes after a neighbour it did not act on
Continue ==
    IF idx = Len(nbrs[cur])
    THEN pc' = "endvisit" /\ idx' = idx
    ELSE pc' = "scan" /\ idx' = idx + 1

\* Lines 60-80, one iteration of the neighbour loop up to its write.
ExamineNeighbor ==
    /\ pc = "scan"
    /\ staleRead' = (staleRead \/ dirty)
    /\ LET na == nbrs[cur][idx]
           shared == Shared(SetOf(electrons), ElectronsOf(na, vcache))
       IN  IF shared = {}
           THEN IF IsLastOption(idx, Len(nbrs[cur]))
                THEN /\ SetFormalCharge(cur, ChargeFor(electrons))
                     /\ wkind' = "charge"
                     /\ widx' = idx
                     /\ pc' = "recompute"
                     /\ UNCHANGED <<idx, btype, changes, lastSet, acted>>
                ELSE /\ Continue
                     /\ UNCHANGED <<charge, chargeSet, nonzeroSet, dirty, wkind,
                                    widx, vwrites, btype, changes, lastSet,
                                    acted>>
           ELSE IF CommonElectrons(shared) = 0
                THEN /\ Continue
                     /\ UNCHANGED <<charge, chargeSet, nonzeroSet, dirty, wkind,
                                    widx, vwrites, btype, changes, lastSet,
                                    acted>>
                ELSE /\ IF SetsBond(CommonElectrons(shared))
                        THEN /\ SetBondType(GetBondBetweenAtoms(cur, na),
                                            BondTypeFor(CommonElectrons(shared)))
                             /\ wkind' = "bond"
                        ELSE /\ wkind' = "noop"
                             /\ UNCHANGED <<btype, changes, lastSet, dirty,
                                            vwrites>>
                     /\ acted' = acted \cup {<<cur, na, CommonElectrons(shared)>>}
                     /\ widx' = idx
                     /\ pc' = AfterBondBranch
                     /\ UNCHANGED <<idx, charge, chargeSet, nonzeroSet>>
    /\ UNCHANGED <<kind, nbrs, vcache, cur, electrons, pass, bt0, ch0, vsnaps,
                   visited, sanSnap, strictLoop, sanitized>>

\* mol.UpdatePropertyCache(strict=False), lines 55, 71 and 79.  After a
\* charge the visit is over (the positive branch has no loop, the fallback
\* charge is written at the last neighbour); after lines 74-79 the loop
\* breaks.
UpdatePropertyCache ==
    /\ pc = "recompute"
    /\ vcache' = PropertyCache(btype)
    /\ dirty' = FALSE
    /\ strictLoop' = (strictLoop \/ LoopStrict)
    /\ IF wkind = "charge" \/ BreaksOut \/ idx = Len(nbrs[cur])
       THEN pc' = "endvisit" /\ idx' = idx
       ELSE pc' = "scan" /\ idx' = idx + 1
    /\ UNCHANGED <<kind, nbrs, btype, charge, cur, electrons, pass, bt0,
                   ch0, vsnaps, wkind, widx, vwrites, visited, sanSnap, acted,
                   chargeSet, nonzeroSet, changes, lastSet, staleRead,
                   sanitized>>

\* The outer loop ends one atom early.
NextAtom_StopsEarly ==
    /\ pc = "endvisit"
    /\ IF cur >= MaxAtoms - 1
       THEN pc' = "sanitize" /\ cur' = cur
       ELSE pc' = "atom" /\ cur' = cur + 1
    /\ UNCHANGED <<kind, nbrs, btype, charge, vcache, dirty, idx, electrons,
                   pass, bt0, ch0, vsnaps, wkind, widx, vwrites, visited,
                   sanSnap, acted, chargeSet, nonzeroSet, changes, lastSet,
                   staleRead, strictLoop, sanitized>>

\* The outer loop moves on to the next atom, or ends.
NextAtom ==
    /\ pc = "endvisit"
    /\ IF cur = MaxAtoms
       THEN pc' = "sanitize" /\ cur' = cur
       ELSE pc' = "atom" /\ cur' = cur + 1
    /\ UNCHANGED <<kind, nbrs, btype, charge, vcache, dirty, idx, electrons,
                   pass, bt0, ch0, vsnaps, wkind, widx, vwrites, visited,
                   sanSnap, acted, chargeSet, nonzeroSet, changes, lastSet,
                   staleRead, strictLoop, sanitized>>

\* Chem.SanitizeMol(mol), line 81: returns, or raises.
SanitizeMol ==
    /\ pc = "sanitize"
    /\ sanitized' = sanitized + 1
    /\ sanSnap' = <<btype, charge>>
    /\ pc' = IF Sanitizes(btype, charge) THEN "done" ELSE "raised"
    /\ UNCHANGED <<kind, nbrs, btype, charge, vcache, dirty, cur, idx,
                   electrons, pass, bt0, ch0, vsnaps, wkind, widx, vwrites,
                   visited, acted, chargeSet, nonzeroSet, changes,
                   lastSet, staleRead, strictLoop>>

\* The caller runs the routine again on the molecule it returned.
SecondPass ==
    /\ pc = "done"
    /\ pass = 1
    /\ pass' = 2
    /\ bt0' = btype
    /\ ch0' = charge
    /\ pc' = "atom"
    /\ cur' = 1
    /\ idx' = 0
    /\ electrons' = <<>>
    /\ vsnaps' = <<>>
    /\ wkind' = "none"
    /\ widx' = 0
    /\ vwrites' = <<>>
    /\ visited' = <<>>
    /\ sanSnap' = <<>>
    /\ acted' = {}
    /\ chargeSet' = {}
    /\ nonzeroSet' = {}
    /\ changes' = [b \in Bonds |-> 0]
    /\ lastSet' = <<>>
    /\ staleRead' = FALSE
    /\ strictLoop' = FALSE
    /\ sanitized' = 0
    /\ UNCHANGED <<kind, nbrs, btype, charge, vcache, dirty>>

Next == VisitAtom \/ ExamineNeighbor \/ UpdatePropertyCache \/ NextAtom \/ SanitizeMol

\* one pass over a topology without bond orders
Spec == Init /\ [][Next]_vars

\* one pass over a molecule whose bonds carry orders
SpecAnyOrder == InitAnyOrder /\ [][Next]_vars

NextTwice == Next \/ SecondPass

\* the routine run twice over a topology without bond orders
SpecTwice == Init /\ [][NextTwice]_vars

----------------------------------------------------------------------------
\* Properties

\* what the visit that just ended was about
VisitEnded == pc = "endvisit"

\* the deficit set atom a had when the k-th visit began
DeficitSetAt(a, k) == SetOf(ElectronsOf(a, vsnaps[k]))

\* the deficit set atom a had when the current visit began
DeficitSetAtStart(a) == DeficitSetAt(a, Len(vsnaps))

\* the total valence the k-th visited atom had when it was visited
VtotAt(k) == vsnaps[k][visited[k]]

\* the current visit called SetFormalCharge
VisitSetCharge == \E j \in 1..Len(vwrites) : vwrites[j] = "charge"

\* the current visit called SetBondType
VisitSetBond == \E j \in 1..Len(vwrites) : vwrites[j] = "bond"

\* C1: when the visit of atom A (not in the positive-charge branch) ends,
\* every neighbour N of A such that 1 was in the deficit sets of both, and
\* before which no neighbour made the visit upgrade a bond or assign a
\* charge, is joined to A by a DOUBLE bond, and the visit set no charge.
C1_BothMissingOneBecomeDouble ==
    VisitEnded =>
        \A k \in 1..Len(nbrs[cur]) :
            ( /\ ~OnlyPositiveCharge(electrons)
              /\ 1 \in DeficitSetAtStart(cur)
              /\ 1 \in DeficitSetAtStart(nbrs[cur][k])
              /\ ~(wkind \in {"bond", "charge"} /\ widx < k) )
            => ( /\ btype[{cur, nbrs[cur][k]}] = DOUBLE
                 /\ ~VisitSetCharge )

\* no neighbour's deficit set met the visited atom's when the visit began
NoCompatibleNeighbor ==
    \A k \in 1..Len(nbrs[cur]) :
        DeficitSetAtStart(cur) \cap DeficitSetAtStart(nbrs[cur][k]) = {}

\* C2: an atom (outside the positive-charge branch) none of whose
\* neighbours shares a deficit with it, an atom without neighbours included,
\* ends its visit with formal charge minus its first deficit, written at the
\* last neighbour, and with none of its bonds changed by the visit.
C2_NoCompatibleNeighborCharged ==
    (VisitEnded /\ ~OnlyPositiveCharge(electrons) /\ NoCompatibleNeighbor) =>
        ( /\ charge[cur] = -electrons[1]
          /\ (VisitSetCharge => widx = Len(nbrs[cur]))
          /\ ~VisitSetBond )

\* the k-th visited atom had one valid valence V and total valence T > V
OverBonded(k) ==
    /\ Len(GetValenceList(kind[visited[k]].sym)) = 1
    /\ VtotAt(k) > GetValenceList(kind[visited[k]].sym)[1]

\* C3: an atom with a single valid valence V, visited with total valence
\* T > V, has formal charge T - V from its visit to the end of the pass, its
\* visit scans no neighbour, and none of its bonds has its order changed at
\* any point of the pass.
C3_OverBondedGetsPositiveCharge ==
    \A k \in 1..Len(visited) :
        OverBonded(k) =>
            ( /\ charge[visited[k]] = VtotAt(k) - GetValenceList(kind[visited[k]].sym)[1]
              /\ (cur = visited[k] => idx = 0)
              /\ \A b \in Bonds :
                    visited[k] \in b => (changes[b] = 0 /\ btype[b] = bt0[b]) )

\* a pass that returned, with an over-bonded atom between two neighbours,
\* one visited before it and one after it
C3_Witness ==
    /\ pc = "done"
    /\ OverBonded(2)
    /\ Len(nbrs[2]) = 2
    /\ charge[2] > 0

\* the pass is over: every atom was visited
PassOver == pc \in {"sanitize", "done", "raised"}

\* C4 as stated: at the end of the pass, every bond whose two atoms both had
\* 2 in their deficit sets when the first of them was visited is TRIPLE.
C4_BothMissingTwoBecomeTriple ==
    PassOver =>
        \A b \in Bonds :
            (\A a \in b : 2 \in DeficitSetAt(a, Min(b))) => btype[b] = TRIPLE

\* C4, amended: whenever the visit of A reaches neighbour N and the smallest
\* deficit the two share is 2, the A-N bond is TRIPLE from then to the end
\* of the pass.
C4_CommonTwoBecomesTriple ==
    \A t \in acted : t[3] = 2 => btype[{t[1], t[2]}] = TRIPLE

\* a pass that returned after a visit found 2 as the smallest shared deficit,
\* in which the visited atom had a second neighbour whose set held 2 as well
C4_Witness ==
    /\ pc = "done"
    /\ \E t \in acted :
          /\ t[3] = 2
          /\ btype[{t[1], t[2]}] = TRIPLE
          /\ \E b \in Bonds :
                /\ t[1] \in b
                /\ t[2] \notin b
                /\ \A a \in b : 2 \in DeficitSetAt(a, Min(b))
                /\ btype[b] = SINGLE

\* C5: no SetBondType call lowers the order of a bond.
C5_NeverLowered ==
    lastSet # <<>> => lastSet[3] >= lastSet[2]

\* atom a had a bond upgraded in this pass
Upgraded(a) == \E b \in Bonds : a \in b /\ changes[b] > 0

\* C6 as stated: over the pass, no atom has both its formal charge assigned
\* and one of its bonds upgraded.
C6_ChargedOrUpgradedNeverBoth ==
    \A a \in Atoms : ~(a \in chargeSet /\ Upgraded(a))

\* C6, amended: the visit of an atom makes at most one corrective write,
\* a SetFormalCharge or a SetBondType, and an atom whose own visit upgraded
\* a bond is assigned no formal charge in the pass.
C6_OneCorrectionPerVisit ==
    /\ Len(vwrites) <= 1
    /\ \A t \in acted : SetsBond(t[3]) => t[1] \notin chargeSet

\* a pass that returned with an atom that a neighbour's visit upgraded and
\* whose own visit then assigned it a charge other than 0
C6_Witness ==
    /\ pc = "done"
    /\ \E a \in nonzeroSet :
          /\ Upgraded(a)
          /\ \A t \in acted : t[1] # a

\* C7: a second run of the routine on a molecule the first run returned
\* leaves every bond order and every formal charge as the first run left it.
C7_SecondPassChangesNothing ==
    pass = 2 => (btype = bt0 /\ charge = ch0)

\* C8: SanitizeMol is called once, after every atom was visited once in atom
\* order; nothing is written after the call; the routine returns only if the
\* molecule sanitizes.
C8_SanitizedOnceAtTheEnd ==
    /\ visited = [k \in 1..Len(visited) |-> k]
    /\ sanitized <= 1
    /\ (sanitized = 1) = (pc \in {"done", "raised"})
    /\ PassOver => Len(visited) = MaxAtoms
    /\ sanitized = 1 => sanSnap = <<btype, charge>>
    /\ pc = "done" => Sanitizes(btype, charge)

\* the routine returned, after visits that wrote a charge and a bond order
C8_Witness ==
    /\ pc = "done"
    /\ sanitized = 1
    /\ chargeSet # {}
    /\ \E b \in Bonds : changes[b] > 0

\* C9: no total valence is read from a cache that a write has made stale,
\* and the recompute in the loop is never strict.
C9_CacheFreshAtEveryRead ==
    /\ ~staleRead
    /\ ~strictLoop
    /\ pc \in {"atom", "scan"} => ~dirty

\* a neighbour's valence is about to be read after an earlier visit upgraded
\* a bond of that neighbour
C9_Witness ==
    /\ pc = "scan"
    /\ changes[{cur, nbrs[cur][idx]}] > 0
    /\ nbrs[cur][idx] < cur

\* C10: in a pass over a topology whose bonds are all SINGLE, no bond has its
\* order changed twice, and SetBondType is not called on a bond from both of
\* its ends: once the cache is recomputed after an upgrade, the deficit sets
\* of both ends of every upgraded bond contain 0.
C10_BondChangedAtMostOnce ==
    /\ \A b \in Bonds : changes[b] <= 1
    /\ \A t, u \in acted :
          (t[1] = u[2] /\ t[2] = u[1]) => ~(SetsBond(t[3]) /\ SetsBond(u[3]))
    /\ ~dirty =>
          \A b \in Bonds :
              changes[b] > 0 => \A a \in b : 0 \in SetOf(ElectronsOf(a, vcache))

\* the visit of the second end of an upgraded bond has examined the first
\* end and left the bond as it was
C10_Witness ==
    /\ pc = "endvisit"
    /\ \E k \in 1..Len(nbrs[cur]) :
          /\ k <= idx
          /\ nbrs[cur][k] < cur
          /\ changes[{cur, nbrs[cur][k]}] = 1
          /\ \E t \in acted : t[1] = nbrs[cur][k] /\ t[2] = cur
          /\ ~(wkind \in {"bond", "noop"} /\ widx = k)

====
